---- MODULE Spec2Model ----
(***************************************************************************)
(* Model of the clinical ETL service: the job registry and submit/status   *)
(* handlers of etl-service/src/main.py and the four stages and the         *)
(* orchestrator (etl_pipeline) of etl-service/src/data_processing.py.      *)
(*                                                                         *)
(* Concurrency model: one asyncio event loop.  A coroutine runs without    *)
(* interruption from one await to the next, so every action below is the   *)
(* code between two suspension points.  The only suspension points of a    *)
(* pipeline task are the asyncio.sleep(1) calls at the head of each stage;  *)
(* submit_job, get_job_status and get_job_details contain no await.        *)
(***************************************************************************)
EXTENDS Integers, Sequences, FiniteSets, TLC

VARIABLES
    jobs,       \* main.py:13   the registry: a function job_id -> job record
    tasks,      \* main.py:16   the set of live asyncio tasks (one record each)
    created,    \* number of asyncio.create_task calls so far (main.py:60)
    now,        \* the wall clock read by pd.Timestamp.now (data_processing.py:111)
    response,   \* the last HTTP response produced by a handler of main.py
    trace,      \* history: per job_id, the stage calls and their outcomes
    \* a stage function called on its own, outside a job:
    input,      \* the record set handed to the stage
    once,       \* what transform_data(input) gave
    twice,      \* what transform_data gave on its own output
    verdicts,   \* the validate_data calls made so far: instant and result
    phase       \* how far the stand-alone calls have got

vars == <<jobs, tasks, created, now, response, trace,
          input, once, twice, verdicts, phase>>

\* the variables of the stand-alone stage calls
dataVars == <<input, once, twice, verdicts, phase>>

----------------------------------------------------------------------------
(* Bounds of the model *)

\* the clock runs from 0 to MaxNow
MaxNow == 1
\* cap on the number of create_task calls (never reached while job ids are unique)
MaxTasks == 3

\* the job identifiers clients use
JobIds == {"job-1", "job-2"}

\* Optional[str] = None  (main.py:21)
None == "<None>"

----------------------------------------------------------------------------
(* Record sets (pandas DataFrames) *)

\* numbers are held in tenths: 9 stands for 0.9, 10 for 1.0
Scale == 10

Columns == {"study_id", "participant_id", "measurement_type", "value",
            "unit", "timestamp", "site_id", "quality_score"}

StringColumns == {"study_id", "participant_id", "measurement_type", "unit", "site_id"}

\* a numeric cell of the CSV: a number, an empty cell (NaN) or non-numeric text
Num(n) == [k |-> "num", n |-> n]
NaN == [k |-> "na", n |-> 0]
Text == [k |-> "text", n |-> 0]
\* a timestamp cell: an instant with UTC offset, a naive instant, an empty
\* cell, or text that does not parse as a date
Utc(t) == [k |-> "utc", n |-> t]
Naive(t) == [k |-> "naive", n |-> t]
BadTs == [k |-> "bad", n |-> 0]

\* one CSV row; an empty string cell is read as NaN by read_csv
Row(pid, mt, v, u, ts, q) ==
    [study_id |-> "STUDY-1", participant_id |-> pid, measurement_type |-> mt,
     value |-> v, unit |-> u, timestamp |-> ts, site_id |-> "SITE-A",
     quality_score |-> q]

\* a DataFrame: its columns, the dtype of each column and its rows in order
Frame(cols, dtypes, rows) == [columns |-> cols, dtypes |-> dtypes, rows |-> rows]
NoData == Frame({}, [c \in {} |-> ""], <<>>)

RowSet(rows) == {rows[i] : i \in 1..Len(rows)}

CellIsNull(row, c) ==
    IF c \in StringColumns THEN row[c] = "" ELSE row[c].k = "na"

IsWhole(cell) == cell.n % Scale = 0

\* dtype inference of pd.read_csv for one column of the parsed file
ReadCsvDtype(c, rows) ==
    LET cells == {r[c] : r \in RowSet(rows)}
    IN  IF c \in StringColumns \/ c = "timestamp"
        THEN IF \A r \in RowSet(rows) : CellIsNull(r, c) THEN "float64" ELSE "object"
        ELSE IF \E x \in cells : x.k = "text" THEN "object"
        ELSE IF \E x \in cells : x.k = "na" \/ ~IsWhole(x) THEN "float64"
        ELSE "int64"

\* variant: no row is dropped
dropnaKeepAll(data) == data

\* DataFrame.dropna(): drop the rows with a missing value in any column
dropna(data) ==
    LET complete(r) == \A c \in data.columns : ~CellIsNull(r, c)
    IN  Frame(data.columns, data.dtypes, SelectSeq(data.rows, complete))

\* pd.to_datetime(data['timestamp'], errors='coerce') assigned back to the
\* column: text that does not parse becomes NaT; the column is UTC-aware only
\* when the parsed strings carry a UTC offset
to_datetime(data) ==
    LET conv(r) == IF r.timestamp.k = "bad"
                   THEN [r EXCEPT !.timestamp = NaN] ELSE r
        kinds == {r.timestamp.k : r \in RowSet(data.rows)} \ {"bad", "na"}
        old == data.dtypes["timestamp"]
        dt == IF old \in {"datetime64[ns, UTC]", "datetime64[ns]"} THEN old
              ELSE IF kinds = {"utc"} THEN "datetime64[ns, UTC]"
              ELSE IF kinds \subseteq {"naive"} THEN "datetime64[ns]"
              ELSE "object"
    IN  Frame(data.columns, [data.dtypes EXCEPT !["timestamp"] = dt],
              [i \in 1..Len(data.rows) |-> conv(data.rows[i])])

\* DataFrame.dropna(subset=['timestamp'])
dropna_timestamp(data) ==
    LET has(r) == r.timestamp.k # "na"
    IN  Frame(data.columns, data.dtypes, SelectSeq(data.rows, has))

\* variant: a Float64 column is inferred again, as a float64 column is
ConvertDtypeAgain(c, old, rows) ==
    IF old = "object"
    THEN IF rows = <<>> THEN "object" ELSE "string[python]"
    ELSE IF old = "int64" THEN "Int64"
    ELSE IF old \in {"float64", "Float64"}
    THEN IF \A r \in RowSet(rows) : CellIsNull(r, c) \/ IsWhole(r[c])
         THEN "Int64" ELSE "Float64"
    ELSE old

\* DataFrame.convert_dtypes(): numpy-backed columns move to the best
\* nullable dtype (object of strings -> string, integers and whole-valued
\* floats -> Int64, other floats -> Float64); extension and datetime columns
\* are left as they are
ConvertDtype(c, old, rows) ==
    IF old = "object"
    THEN IF rows = <<>> THEN "object" ELSE "string[python]"
    ELSE IF old = "int64" THEN "Int64"
    ELSE IF old = "float64"
    THEN IF \A r \in RowSet(rows) : CellIsNull(r, c) \/ IsWhole(r[c])
         THEN "Int64" ELSE "Float64"
    ELSE old

convert_dtypes(data) ==
    Frame(data.columns,
          [c \in data.columns |-> ConvertDtype(c, data.dtypes[c], data.rows)],
          data.rows)

\* the declared dtype of each column (the asserts of transform_data)
DeclaredDtype(c) ==
    IF c \in StringColumns THEN "string[python]"
    ELSE IF c = "timestamp" THEN "datetime64[ns, UTC]"
    ELSE "Float64"

\* the order in which transform_data looks the columns up
AssertOrder == <<"study_id", "participant_id", "measurement_type", "value",
                 "unit", "timestamp", "site_id", "quality_score">>

----------------------------------------------------------------------------
(* Stage outcomes: a value returned or an exception raised *)

Return(data) == [ok |-> TRUE, type |-> "", text |-> "", data |-> data, flag |-> TRUE]
ReturnBool(b) == [ok |-> TRUE, type |-> "", text |-> "", data |-> NoData, flag |-> b]
Raise(type, text) == [ok |-> FALSE, type |-> type, text |-> text, data |-> NoData, flag |-> FALSE]

\* str(KeyError(c))
KeyErrorText(c) == "'" \o c \o "'"

----------------------------------------------------------------------------
(* transform_data *)

Key(r) == <<r.participant_id, r.measurement_type>>

Perms(n) == {f \in [1..n -> 1..n] : \A i, j \in 1..n : i # j => f[i] # f[j]}

\* variant: ascending=True
sort_valuesAscending(rows) ==
    {[i \in 1..Len(rows) |-> rows[f[i]]] : f \in
        {g \in Perms(Len(rows)) : \A i, j \in 1..Len(rows) :
            i < j => rows[g[i]].quality_score.n <= rows[g[j]].quality_score.n}}

\* sort_values(by='quality_score', ascending=False): the default sort is not
\* stable, so rows of equal quality_score may come out in any order
sort_values(rows) ==
    {[i \in 1..Len(rows) |-> rows[f[i]]] : f \in
        {g \in Perms(Len(rows)) : \A i, j \in 1..Len(rows) :
            i < j => rows[g[i]].quality_score.n >= rows[g[j]].quality_score.n}}

\* drop_duplicates(subset=['participant_id', 'measurement_type'], keep='first')
RECURSIVE drop_duplicates(_)
drop_duplicates(rows) ==
    IF rows = <<>> THEN <<>>
    ELSE LET init == drop_duplicates(SubSeq(rows, 1, Len(rows) - 1))
             last == rows[Len(rows)]
         IN  IF \E i \in 1..Len(init) : Key(init[i]) = Key(last)
             THEN init ELSE Append(init, last)

\* the asserts of transform_data that fail on the converted frame
CheckFails(data, c) == c \notin data.columns \/ data.dtypes[c] # DeclaredDtype(c)

FailingChecks(data) == {i \in 1..Len(AssertOrder) : CheckFails(data, AssertOrder[i])}

\* the asserts on the converted frame d, of which those in `bad` fail, and
\* then the sort and the deduplication
AssertAndDeduplicate(d, bad) ==
    IF bad # {}
    THEN LET first == CHOOSE i \in bad : \A j \in bad : i <= j
         IN  IF AssertOrder[first] \notin d.columns
             THEN {Raise("KeyError", KeyErrorText(AssertOrder[first]))}
             ELSE {Raise("AssertionError", "")}
    ELSE {Return(Frame(d.columns, d.dtypes, drop_duplicates(s))) :
             s \in sort_values(d.rows)}

\* every result transform_data can produce on `data` (each intermediate frame
\* is bound once, as the code binds `data`)
transform_data(data) ==
    IF "timestamp" \notin data.columns
    THEN {Raise("KeyError", KeyErrorText("timestamp"))}
    ELSE UNION {AssertAndDeduplicate(d, FailingChecks(d)) :
            d \in {convert_dtypes(d3) :
               d3 \in {dropna_timestamp(d2) :
                  d2 \in {to_datetime(d1) : d1 \in {dropna(data)}}}}}

----------------------------------------------------------------------------
(* validate_data *)

NumericDtypes == {"int64", "float64", "Int64", "Float64"}

\* all(series) over an elementwise comparison: "T", "F", or "NA" where the
\* nullable dtype yields pd.NA, whose truth value raises TypeError.  all()
\* stops at the first element that is not true.
RECURSIVE AllOf(_)
AllOf(tri) ==
    IF tri = <<>> THEN "true"
    ELSE IF Head(tri) = "F" THEN "false"
    ELSE IF Head(tri) = "NA" THEN "raise"
    ELSE AllOf(Tail(tri))

\* one element of a comparison on a numeric column: a missing value compares
\* as pd.NA in a nullable column and as False in a numpy column
CompareCell(dtype, cell, holds) ==
    IF cell.k = "na" THEN (IF dtype \in {"Int64", "Float64"} THEN "NA" ELSE "F")
    ELSE IF holds THEN "T" ELSE "F"

ValueRule(data) ==
    AllOf([i \in 1..Len(data.rows) |->
             CompareCell(data.dtypes["value"], data.rows[i].value,
                         data.rows[i].value.n >= 0)])

QualityRule(data) ==
    AllOf([i \in 1..Len(data.rows) |->
             CompareCell(data.dtypes["quality_score"], data.rows[i].quality_score,
                         0 <= data.rows[i].quality_score.n
                            /\ data.rows[i].quality_score.n <= Scale)])

\* variant: timestamp < now
TimestampRuleStrict(data, t) ==
    AllOf([i \in 1..Len(data.rows) |->
             IF data.rows[i].timestamp.k = "utc" /\ data.rows[i].timestamp.n < t
             THEN "T" ELSE "F"])

\* NaT <= now is False
TimestampRule(data, t) ==
    AllOf([i \in 1..Len(data.rows) |->
             IF data.rows[i].timestamp.k = "utc" /\ data.rows[i].timestamp.n <= t
             THEN "T" ELSE "F"])

\* variant: the units are not compared
UnitRuleSkipped(data) == "true"

\* groupby drops the rows whose key is missing; unique() counts NaN as a value
UnitRule(data) ==
    LET types == {r.measurement_type : r \in RowSet(data.rows)} \ {""}
        units(m) == {r.unit : r \in {x \in RowSet(data.rows) : x.measurement_type = m}}
    IN  IF \A m \in types : Cardinality(units(m)) = 1 THEN "true" ELSE "false"

\* the result of validate_data on `data` when the clock reads t
validate_data(data, t) ==
    IF "value" \notin data.columns THEN Raise("KeyError", KeyErrorText("value"))
    ELSE IF data.dtypes["value"] \notin NumericDtypes THEN Raise("TypeError", "'>=' not supported")
    ELSE IF ValueRule(data) = "raise" THEN Raise("TypeError", "boolean value of NA is ambiguous")
    ELSE IF ValueRule(data) = "false" THEN ReturnBool(FALSE)
    ELSE IF "quality_score" \notin data.columns THEN Raise("KeyError", KeyErrorText("quality_score"))
    ELSE IF data.dtypes["quality_score"] \notin NumericDtypes THEN Raise("TypeError", "'>=' not supported")
    ELSE IF QualityRule(data) = "raise" THEN Raise("TypeError", "boolean value of NA is ambiguous")
    ELSE IF QualityRule(data) = "false" THEN ReturnBool(FALSE)
    ELSE IF "timestamp" \notin data.columns THEN Raise("KeyError", KeyErrorText("timestamp"))
    ELSE IF data.dtypes["timestamp"] # "datetime64[ns, UTC]" THEN Raise("TypeError", "Invalid comparison")
    ELSE IF TimestampRule(data, t) = "false" THEN ReturnBool(FALSE)
    ELSE IF "measurement_type" \notin data.columns THEN Raise("KeyError", KeyErrorText("measurement_type"))
    ELSE IF (\E r \in RowSet(data.rows) : r.measurement_type # "") /\ "unit" \notin data.columns THEN Raise("KeyError", KeyErrorText("unit"))
    ELSE ReturnBool(UnitRule(data) = "true")

----------------------------------------------------------------------------
(* The files under /app/data and extract_data, load_data *)

DATA_DIR == "/app/data/"

CsvFile(rows) ==
    [exists |-> TRUE,
     data |-> Frame(Columns, [c \in Columns |-> ReadCsvDtype(c, rows)], rows)]
NoFile == [exists |-> FALSE, data |-> NoData]

\* good.csv: a duplicate (P1, bp) pair and a row with a missing unit
GoodRows ==
    <<Row("P1", "bp", Num(1180), "mmHg", Utc(0), Num(7)),
      Row("P1", "bp", Num(1205), "mmHg", Utc(0), Num(9)),
      Row("P2", "bp", Num(1312), "", Utc(0), Num(8))>>
\* whole.csv: every value is a whole number
WholeRows ==
    <<Row("P1", "hr", Num(720), "bpm", Utc(0), Num(9))>>
\* mixed.csv: one measurement type in two units
MixedRows ==
    <<Row("P1", "bp", Num(1205), "mmHg", Utc(0), Num(9)),
      Row("P2", "bp", Num(161), "kPa", Utc(0), Num(8))>>
\* late.csv: a record stamped one tick after the clock's start
LateRows ==
    <<Row("P1", "bp", Num(1205), "mmHg", Utc(1), Num(9))>>

Filenames == {"good.csv", "whole.csv", "mixed.csv", "late.csv", "missing.csv"}

Files ==
    [f \in Filenames |->
        CASE f = "good.csv" -> CsvFile(GoodRows)
          [] f = "whole.csv" -> CsvFile(WholeRows)
          [] f = "mixed.csv" -> CsvFile(MixedRows)
          [] f = "late.csv" -> CsvFile(LateRows)
          [] OTHER -> NoFile]

\* extract_data after its sleep: pd.read_csv(DATA_DIR + filename)
extract_data(filename) ==
    IF ~Files[filename].exists
    THEN Raise("FileNotFoundError",
               "[Errno 2] No such file or directory: '" \o DATA_DIR \o filename \o "'")
    ELSE IF Files[filename].data.rows = <<>> /\ Files[filename].data.columns = {}
    THEN Raise("EmptyDataError", "No columns to parse from file")
    ELSE Return(Files[filename].data)

\* load_data after its sleep: `pass`
load_data(data) == Return(NoData)

----------------------------------------------------------------------------
(* The job registry and the handlers of main.py *)

\* class ETLJobRequest
ETLJobRequest(job_id, filename, studyId) ==
    [jobId |-> job_id, filename |-> filename, studyId |-> studyId]

\* the request bodies clients send: every job id with every file; the study
\* id is left out for two of the files and given for the others
StudyIdFor(filename) ==
    IF filename \in {"good.csv", "late.csv"} THEN None ELSE "STUDY-1"

Requests ==
    {ETLJobRequest(j, f, StudyIdFor(f)) : j \in JobIds, f \in Filenames}

\* mutants of JobExists: no check at all; only running jobs count
JobExistsNever(job_id) == FALSE
JobExistsRunningOnly(job_id) ==
    job_id \in DOMAIN jobs /\ jobs[job_id].status = "running"

\* `job_id in jobs`
JobExists(job_id) == job_id \in DOMAIN jobs

\* mutant of NewJob: a job starts at progress 25
NewJobAhead(job_id, filename, studyId) ==
    [jobId |-> job_id, filename |-> filename, studyId |-> studyId,
     status |-> "running", progress |-> 25, message |-> "Job started"]

NewJob(job_id, filename, studyId) ==
    [jobId |-> job_id, filename |-> filename, studyId |-> studyId,
     status |-> "running", progress |-> 0, message |-> "Job started"]

\* mutant of RegistryPut: the registry is rebound to a fresh dict
RegistryReplace(reg, job_id, job) == [x \in {job_id} |-> job]

\* jobs[job_id] = job
RegistryPut(reg, job_id, job) ==
    [x \in DOMAIN reg \cup {job_id} |-> IF x = job_id THEN job ELSE reg[x]]

\* the exception bound by `except Exception as e`: its class and str(e)
Caught(type, text) == [type |-> type, text |-> text]
NoError == Caught("", "")

\* asyncio.create_task(etl_pipeline(filename, jobs, job_id)); tasks.add(task)
NewTask(tid, job_id, filename) ==
    [tid |-> tid, job_id |-> job_id, filename |-> filename,
     pc |-> "created", data |-> NoData, e |-> NoError, exc |-> "none"]

HTTPException(op, code, detail) == [op |-> op, code |-> code, body |-> [detail |-> detail]]
OK(op, body) == [op |-> op, code |-> 200, body |-> body]

Ev(stage, what) == [stage |-> stage, ev |-> what]
Log(job_id, evs) == [trace EXCEPT ![job_id] = @ \o evs]

submit_job(job_request) ==
    /\ created < MaxTasks
    /\ IF JobExists(job_request.jobId)
       THEN /\ response' = HTTPException("submit", 400, "Job ID already exists")
            /\ UNCHANGED <<jobs, tasks, created, trace>>
       ELSE /\ jobs' = RegistryPut(jobs, job_request.jobId,
                                   NewJob(job_request.jobId, job_request.filename,
                                          job_request.studyId))
            /\ tasks' = tasks \cup {NewTask(created + 1, job_request.jobId,
                                            job_request.filename)}
            /\ created' = created + 1
            /\ response' = OK("submit", [jobId |-> job_request.jobId, status |-> "running",
                                         message |-> "Job submitted successfully"])
            /\ trace' = Log(job_request.jobId, <<Ev("etl_pipeline", "create")>>)
    /\ UNCHANGED now
    /\ UNCHANGED dataVars

get_job_status(job_id) ==
    /\ response' = IF ~JobExists(job_id)
                   THEN HTTPException("status", 404, "Job not found")
                   ELSE OK("status", [jobId |-> job_id, status |-> jobs[job_id].status,
                                      progress |-> jobs[job_id].progress,
                                      message |-> jobs[job_id].message])
    /\ UNCHANGED <<jobs, tasks, created, now, trace>>
    /\ UNCHANGED dataVars

get_job_details(job_id) ==
    /\ response' = IF ~JobExists(job_id)
                   THEN HTTPException("details", 404, "Job not found")
                   ELSE OK("details", jobs[job_id])
    /\ UNCHANGED <<jobs, tasks, created, now, trace>>
    /\ UNCHANGED dataVars

----------------------------------------------------------------------------
(* etl_pipeline: one action per stretch of code between two awaits *)

\* the classes `except Exception` catches; asyncio.CancelledError,
\* KeyboardInterrupt and SystemExit derive from BaseException only
ExceptionClasses == {"FileNotFoundError", "EmptyDataError", "ParserError", "KeyError",
                     "AssertionError", "TypeError", "ValueError"}
\* mutant of IsException: `except AssertionError`
IsExceptionAssertOnly(type) == type = "AssertionError"

IsException(type) == type \in ExceptionClasses

Replace(t, u) == (tasks \ {t}) \cup {u}

\* mutant of FailedMessage: str(e) alone
FailedMessageBare(text) == text

\* the except clause of etl_pipeline
FailedMessage(text) == "ETL process failed: " \o text
\* mutant of StageFailed: the handler resets the progress
StageFailedResetProgress(job, text) ==
    [job EXCEPT !.status = "failed", !.message = FailedMessage(text), !.progress = 0]

StageFailed(job, text) ==
    [job EXCEPT !.status = "failed", !.message = FailedMessage(text), !.progress = 100]

\* mutant of ValidationFailed: the gate reports as the except clause does
ValidationFailedAsError(job) ==
    [job EXCEPT !.status = "failed", !.message = FailedMessage("Data validation failed"),
                !.progress = 100]

\* mutant of ValidationFailed: the progress is written after a later await
ValidationFailedNoProgress(job) ==
    [job EXCEPT !.status = "failed", !.message = "Data validation failed"]

\* mutant of ValidationFailed: the status is left as it was
ValidationFailedNoStatus(job) ==
    [job EXCEPT !.message = "Data validation failed", !.progress = 100]

\* the `if not is_valid` branch
ValidationFailed(job) ==
    [job EXCEPT !.status = "failed", !.message = "Data validation failed", !.progress = 100]

\* mutant of Completed: the status is left as it was
CompletedNoStatus(job) ==
    [job EXCEPT !.progress = 100, !.message = "ETL process completed successfully"]

\* the last three assignments of the try block
Completed(job) ==
    [job EXCEPT !.progress = 100, !.status = "completed",
                !.message = "ETL process completed successfully"]

\* a stage raised `out` inside the try block of task t
Except(t, stage, out) ==
    /\ jobs' = IF IsException(out.type)
               THEN [jobs EXCEPT ![t.job_id] = StageFailed(@, out.text)]
               ELSE jobs
    /\ tasks' = Replace(t, [t EXCEPT !.pc = "done", !.data = NoData,
                              !.e = IF IsException(out.type)
                                    THEN Caught(out.type, out.text) ELSE NoError,
                              !.exc = IF IsException(out.type) THEN "none" ELSE out.type])
    /\ trace' = Log(t.job_id, IF IsException(out.type)
                               THEN <<Ev(stage, "raise")>>
                               ELSE <<Ev(stage, "raise"), Ev("etl_pipeline", "raise")>>)

\* mutant of IsValid: the verdict is ignored
IsValidAlways(out) == TRUE

\* `is_valid = await validate_data(data)` and the test `if not is_valid`
IsValid(out) == out.flag
Verdict(out) == IF out.flag THEN "true" ELSE "false"

\* the task is first scheduled: message, then extract_data up to its sleep
StartPipeline(t) ==
    /\ t.pc = "created"
    /\ jobs' = [jobs EXCEPT ![t.job_id].message = "Extracting data"]
    /\ tasks' = Replace(t, [t EXCEPT !.pc = "extract"])
    /\ trace' = Log(t.job_id, <<Ev("extract", "call")>>)
    /\ UNCHANGED <<created, now, response>>
    /\ UNCHANGED dataVars

\* extract_data resumes; on success progress 25 and transform_data up to its sleep
ExtractStep(t) ==
    /\ t.pc = "extract"
    /\ \E out \in {extract_data(t.filename)} :
           IF out.ok
           THEN /\ jobs' = [jobs EXCEPT ![t.job_id].progress = 25,
                                        ![t.job_id].message = "Transforming data"]
                /\ tasks' = Replace(t, [t EXCEPT !.pc = "transform", !.data = out.data])
                /\ trace' = Log(t.job_id, <<Ev("extract", "return"), Ev("transform", "call")>>)
           ELSE Except(t, "extract", out)
    /\ UNCHANGED <<created, now, response>>
    /\ UNCHANGED dataVars

\* transform_data resumes; on success progress 50 and validate_data up to its sleep
TransformStep(t) ==
    /\ t.pc = "transform"
    /\ \E out \in transform_data(t.data) :
           IF out.ok
           THEN /\ jobs' = [jobs EXCEPT ![t.job_id].progress = 50,
                                        ![t.job_id].message = "Validating data"]
                /\ tasks' = Replace(t, [t EXCEPT !.pc = "validate", !.data = out.data])
                /\ trace' = Log(t.job_id, <<Ev("transform", "return"), Ev("validate", "call")>>)
           ELSE Except(t, "transform", out)
    /\ UNCHANGED <<created, now, response>>
    /\ UNCHANGED dataVars

\* validate_data resumes; false ends the job, true goes on to load_data's sleep
ValidateStep(t) ==
    /\ t.pc = "validate"
    /\ \E out \in {validate_data(t.data, now)} :
           IF ~out.ok THEN Except(t, "validate", out)
           ELSE IF ~IsValid(out)
           THEN /\ jobs' = [jobs EXCEPT ![t.job_id] = ValidationFailed(@)]
                /\ tasks' = Replace(t, [t EXCEPT !.pc = "done", !.data = NoData])
                /\ trace' = Log(t.job_id, <<Ev("validate", Verdict(out))>>)
           ELSE /\ jobs' = [jobs EXCEPT ![t.job_id].progress = 75,
                                        ![t.job_id].message = "Loading data into database"]
                /\ tasks' = Replace(t, [t EXCEPT !.pc = "load"])
                /\ trace' = Log(t.job_id, <<Ev("validate", Verdict(out)), Ev("load", "call")>>)
    /\ UNCHANGED <<created, now, response>>
    /\ UNCHANGED dataVars

\* load_data resumes; on success the job is completed
LoadStep(t) ==
    /\ t.pc = "load"
    /\ \E out \in {load_data(t.data)} :
           IF out.ok
           THEN /\ jobs' = [jobs EXCEPT ![t.job_id] = Completed(@)]
                /\ tasks' = Replace(t, [t EXCEPT !.pc = "done", !.data = NoData])
                /\ trace' = Log(t.job_id, <<Ev("load", "return")>>)
           ELSE Except(t, "load", out)
    /\ UNCHANGED <<created, now, response>>
    /\ UNCHANGED dataVars

\* task.add_done_callback(tasks.discard)
TaskDone(t) ==
    /\ t.pc = "done"
    /\ tasks' = tasks \ {t}
    /\ UNCHANGED <<jobs, created, now, response, trace>>
    /\ UNCHANGED dataVars

\* time passes
Tick ==
    /\ now < MaxNow
    /\ now' = now + 1
    /\ UNCHANGED <<jobs, tasks, created, response, trace>>
    /\ UNCHANGED dataVars

----------------------------------------------------------------------------

\* a stage that has not been called
NotRun == [ok |-> FALSE, type |-> "none", text |-> "", data |-> NoData, flag |-> FALSE]

NoResponse == [op |-> "none", code |-> 0, body |-> [detail |-> ""]]

Init ==
    /\ jobs = [x \in {} |-> NewJob("", "", None)]
    /\ tasks = {}
    /\ created = 0
    /\ now = 0
    /\ response = NoResponse
    /\ trace = [j \in JobIds |-> <<>>]
    /\ input = NoData
    /\ once = NotRun
    /\ twice = NotRun
    /\ verdicts = <<>>
    /\ phase = "service"

Next ==
    \/ \E job_request \in Requests : submit_job(job_request)
    \/ \E job_id \in JobIds : get_job_status(job_id)
    \/ \E job_id \in JobIds : get_job_details(job_id)
    \/ \E t \in tasks : StartPipeline(t)
    \/ \E t \in tasks : ExtractStep(t)
    \/ \E t \in tasks : TransformStep(t)
    \/ \E t \in tasks : ValidateStep(t)
    \/ \E t \in tasks : LoadStep(t)
    \/ \E t \in tasks : TaskDone(t)
    \/ Tick

Spec == Init /\ [][Next]_vars

----------------------------------------------------------------------------
(* transform_data and validate_data called on their own, on any record set *)

\* the rows a record set is drawn from
RowPool ==
    {\* a whole value, 118.0
     Row("P1", "bp", Num(1180), "mmHg", Utc(0), Num(9)),
     \* the same (participant_id, measurement_type), lower quality
     Row("P1", "bp", Num(1205), "mmHg", Utc(0), Num(7)),
     \* the same pair again, equal quality, another unit
     Row("P1", "bp", Num(161), "kPa", Utc(0), Num(9)),
     \* stamped one tick after the clock's start, whole quality_score 1.0
     Row("P2", "bp", Num(1312), "kPa", Utc(1), Num(10)),
     \* a negative value
     Row("P2", "hr", Num(-35), "bpm", Utc(0), Num(5)),
     \* a quality_score above 1
     Row("P3", "hr", Num(725), "bpm", Utc(0), Num(12)),
     \* missing cells, text that is no number, timestamps that do not parse
     \* or carry no offset
     Row("P2", "bp", Num(1312), "", Utc(0), Num(8)),
     Row("P3", "bp", NaN, "mmHg", Utc(0), Num(8)),
     Row("P3", "bp", Text, "mmHg", Utc(0), Num(8)),
     Row("P3", "bp", Num(1251), "mmHg", BadTs, Num(8)),
     Row("P3", "bp", Num(1251), "mmHg", Naive(0), Num(8))}

\* a record set has at most MaxRows rows
MaxRows == 2
\* validate_data is called at most MaxCalls times on one record set
MaxCalls == 2

RowSeqs(pool) == UNION {[1..k -> pool] : k \in 0..MaxRows}

\* what pd.read_csv gives for a file of these rows, with all the declared
\* columns or without the unit column
RawFrames ==
    {Frame(cols, [c \in cols |-> ReadCsvDtype(c, rows)], rows) :
        cols \in {Columns, Columns \ {"unit"}}, rows \in RowSeqs(RowPool)}

\* the rows without a missing cell whose value and quality_score are numbers
\* and whose timestamp is an instant with UTC offset
TypedRows ==
    {r \in RowPool : /\ \A c \in Columns : ~CellIsNull(r, c)
                     /\ r.value.k = "num" /\ r.quality_score.k = "num"
                     /\ r.timestamp.k = "utc"}

\* the structurally valid record sets: every declared column with its
\* declared dtype and no missing cell (the empty one included)
TypedFrames ==
    {Frame(Columns, [c \in Columns |-> DeclaredDtype(c)], rows) :
        rows \in RowSeqs(TypedRows)}

\* one validate_data call: the record set passed, the clock, the outcome
Call(data, t) == [on |-> data, at |-> t, out |-> validate_data(data, t)]

\* the record set validate_data is called on
Subject == IF phase = "typed" THEN input ELSE once.data

\* transform_data(input)
CallTransform ==
    /\ phase \in {"raw", "typed"}
    /\ once' \in transform_data(input)
    /\ phase' = "once"
    /\ UNCHANGED <<input, twice, verdicts>>
    /\ UNCHANGED <<jobs, tasks, created, now, response, trace>>

\* transform_data on the record set the first call returned
CallTransformAgain ==
    /\ phase = "once"
    /\ once.ok
    /\ twice' \in transform_data(once.data)
    /\ phase' = "twice"
    /\ UNCHANGED <<input, once, verdicts>>
    /\ UNCHANGED <<jobs, tasks, created, now, response, trace>>

\* validate_data on a typed record set or on the output of transform_data,
\* reading the clock as it stands
CallValidate ==
    /\ phase = "typed" \/ (phase = "once" /\ once.ok)
    /\ Len(verdicts) < MaxCalls
    /\ \E v \in {Call(Subject, now)} : verdicts' = Append(verdicts, v)
    /\ UNCHANGED <<input, once, twice, phase>>
    /\ UNCHANGED <<jobs, tasks, created, now, response, trace>>

DataInit ==
    /\ jobs = [x \in {} |-> NewJob("", "", None)]
    /\ tasks = {}
    /\ created = 0
    /\ now = 0
    /\ response = NoResponse
    /\ trace = [j \in JobIds |-> <<>>]
    /\ \/ phase = "raw" /\ input \in RawFrames
       \/ phase = "typed" /\ input \in TypedFrames
    /\ once = NotRun
    /\ twice = NotRun
    /\ verdicts = <<>>

DataNext ==
    \/ CallTransform
    \/ CallTransformAgain
    \/ CallValidate
    \/ Tick

DataSpec == DataInit /\ [][DataNext]_vars

----------------------------------------------------------------------------
(* Properties *)

Terminal(job) == job.status \in {"completed", "failed"}
Has(j, stage, what) == \E i \in 1..Len(trace[j]) : trace[j][i] = Ev(stage, what)
Registered(j) == j \in DOMAIN jobs
DuplicateJob == HTTPException("submit", 400, "Job ID already exists")

PipelineStep(t) ==
    \/ StartPipeline(t) \/ ExtractStep(t) \/ TransformStep(t)
    \/ ValidateStep(t) \/ LoadStep(t)

\* C1: when a stage raises, nothing of that job is invoked afterwards, the job
\* is failed with progress 100, and the exception does not leave etl_pipeline
\* (no task ends with an exception).
C1_StageErrorFailsJob ==
    /\ \A t \in tasks : t.exc = "none"
    /\ \A j \in JobIds : \A i \in 1..Len(trace[j]) :
          trace[j][i].ev = "raise" =>
             /\ trace[j][i].stage # "etl_pipeline"
             /\ i = Len(trace[j])
             /\ Registered(j) /\ jobs[j].status = "failed" /\ jobs[j].progress = 100

C1_Witness ==
    /\ Has("job-1", "extract", "raise")
    /\ Has("job-2", "transform", "raise")

\* C2: a job that is completed or failed keeps its status, progress and
\* message in every later step, and a status only ever changes from running
\* to completed or from running to failed.
C2_TerminalAbsorbing ==
    [][\A j \in DOMAIN jobs :
          /\ j \in DOMAIN jobs'
          /\ Terminal(jobs[j]) =>
                /\ jobs'[j].status = jobs[j].status
                /\ jobs'[j].progress = jobs[j].progress
                /\ jobs'[j].message = jobs[j].message
          /\ jobs'[j].status # jobs[j].status =>
                jobs[j].status = "running" /\ Terminal(jobs'[j])]_vars

C2_Witness ==
    /\ Registered("job-1") /\ jobs["job-1"].status = "completed"
    /\ Registered("job-2") /\ jobs["job-2"].status = "failed"
    /\ tasks = {}
    /\ response.op = "status" /\ response.code = 200
    /\ response.body.status = "failed"

\* C3: a submit whose jobId is already registered answers 400 "Job ID already
\* exists", leaves the registry as it was and creates no task.
C3_DuplicateRejected ==
    [][\A job_request \in Requests :
          (job_request.jobId \in DOMAIN jobs /\ submit_job(job_request)) =>
             /\ response' = DuplicateJob
             /\ jobs' = jobs
             /\ tasks' = tasks
             /\ created' = created]_vars

C3_Witness ==
    /\ response = DuplicateJob
    /\ Registered("job-1") /\ jobs["job-1"].status = "completed"
    /\ Registered("job-2") /\ jobs["job-2"].status = "running"

\* C4: for every jobId exactly one pipeline task has been created if the id is
\* registered and none otherwise, so at most one execution exists per jobId.
NumCreated(j) ==
    LET IsCreate(e) == e = Ev("etl_pipeline", "create")
    IN  Len(SelectSeq(trace[j], IsCreate))

C4_OnePipelinePerJob ==
    \A j \in JobIds :
       /\ NumCreated(j) = IF Registered(j) THEN 1 ELSE 0
       /\ Cardinality({t \in tasks : t.job_id = j}) <= 1

C4_Witness ==
    /\ response = DuplicateJob
    /\ \E t \in tasks : t.job_id = "job-1" /\ t.pc = "validate"
    /\ \E t \in tasks : t.job_id = "job-2" /\ t.pc = "extract"

\* C5: when validate_data returned false the job is failed with message
\* "Data validation failed" and progress 100 and load_data was not called;
\* load_data is called only right after validate_data returned true.
C5_ValidationGate ==
    \A j \in JobIds :
       /\ Has(j, "validate", "false") =>
             /\ jobs[j].status = "failed"
             /\ jobs[j].message = "Data validation failed"
             /\ jobs[j].progress = 100
             /\ ~Has(j, "load", "call")
       /\ \A i \in 1..Len(trace[j]) :
             trace[j][i] = Ev("load", "call") =>
                i > 1 /\ trace[j][i - 1] = Ev("validate", "true")

C5_Witness ==
    /\ Has("job-1", "validate", "false")
    /\ Has("job-2", "load", "call")

\* C6: a job is completed exactly when extract, transform and load returned
\* and validate returned true; a completed job has progress 100 and the
\* success message.
AllStagesSucceeded(j) ==
    /\ Has(j, "extract", "return") /\ Has(j, "transform", "return")
    /\ Has(j, "validate", "true") /\ Has(j, "load", "return")

C6_CompletedIffAllStages ==
    \A j \in JobIds :
       /\ (Registered(j) /\ jobs[j].status = "completed") <=> AllStagesSucceeded(j)
       /\ (Registered(j) /\ jobs[j].status = "completed") =>
             /\ jobs[j].progress = 100
             /\ jobs[j].message = "ETL process completed successfully"

C6_Witness ==
    /\ Registered("job-1") /\ jobs["job-1"].status = "completed"
    /\ Registered("job-2") /\ jobs["job-2"].status = "failed"
    /\ Has("job-2", "transform", "return")

\* C7: a job starts with progress 0 and its progress never decreases.
C7_MonotonicProgress ==
    [][\A j \in DOMAIN jobs' :
          IF j \in DOMAIN jobs
          THEN jobs'[j].progress >= jobs[j].progress
          ELSE jobs'[j].progress = 0]_vars

C7_Witness ==
    /\ Registered("job-1") /\ jobs["job-1"].progress = 75
    /\ Registered("job-2") /\ jobs["job-2"].message = "Data validation failed"
    /\ jobs["job-2"].progress = 100

\* The event loop resumes every task whose sleep has elapsed: the next step
\* of the pipeline task of each job is taken eventually.
PipelineOf(j) == \E t \in tasks : t.job_id = j /\ PipelineStep(t)

FairSpec == Spec /\ \A j \in JobIds : WF_vars(PipelineOf(j))

\* C8: under that fairness every registered job eventually is completed or
\* failed, whatever the other jobs do.
C8_EventuallyTerminal ==
    \A j \in JobIds : Registered(j) ~> (Registered(j) /\ Terminal(jobs[j]))

C8_Witness ==
    /\ Registered("job-1") /\ jobs["job-1"].status = "failed"
    /\ Registered("job-2") /\ jobs["job-2"].status = "running"
    /\ \E t \in tasks : t.job_id = "job-2" /\ t.pc = "load"

\* C9: the stages of a job are called in the order extract, transform,
\* validate, load, each at most once, and each only right after the stage
\* before it succeeded (extract right after the task was created).
StageOrder == <<"extract", "transform", "validate", "load">>

Calls(j) ==
    LET IsCall(e) == e.ev = "call"
        calls == SelectSeq(trace[j], IsCall)
    IN  [i \in 1..Len(calls) |-> calls[i].stage]

Before(stage) ==
    CASE stage = "extract" -> Ev("etl_pipeline", "create")
      [] stage = "transform" -> Ev("extract", "return")
      [] stage = "validate" -> Ev("transform", "return")
      [] stage = "load" -> Ev("validate", "true")

C9_StageOrder ==
    \A j \in JobIds :
       /\ Len(Calls(j)) <= Len(StageOrder)
       /\ Calls(j) = SubSeq(StageOrder, 1, Len(Calls(j)))
       /\ \A i \in 1..Len(trace[j]) :
             trace[j][i].ev = "call" =>
                i > 1 /\ trace[j][i - 1] = Before(trace[j][i].stage)

C9_Witness ==
    /\ Calls("job-1") = StageOrder
    /\ Calls("job-2") = <<"extract", "transform">>
    /\ \E t \in tasks : t.job_id = "job-1" /\ t.pc = "load"
    /\ \E t \in tasks : t.job_id = "job-2" /\ t.pc = "transform"

\* C10: no step removes a registry entry or changes an entry's jobId,
\* filename or studyId, and an entry changes only in a step taken by the
\* pipeline task of its own job id (never in a submit, a status or details
\* query, or a step of another job's task).
C10_SingleWriterFrame ==
    [][/\ DOMAIN jobs \subseteq DOMAIN jobs'
       /\ \A j \in DOMAIN jobs \cap DOMAIN jobs' :
             /\ jobs'[j].jobId = jobs[j].jobId
             /\ jobs'[j].filename = jobs[j].filename
             /\ jobs'[j].studyId = jobs[j].studyId
       /\ \A j \in DOMAIN jobs' : jobs'[j].jobId = j
       /\ \A j \in DOMAIN jobs \cap DOMAIN jobs' :
             jobs'[j] # jobs[j] => \E t \in tasks \ tasks' : t.job_id = j]_vars

C10_Witness ==
    /\ Registered("job-1") /\ jobs["job-1"].filename = "good.csv"
    /\ jobs["job-1"].studyId = None /\ jobs["job-1"].status = "completed"
    /\ Registered("job-2") /\ jobs["job-2"].filename = "mixed.csv"
    /\ jobs["job-2"].studyId = "STUDY-1" /\ jobs["job-2"].status = "failed"
    /\ response = OK("details", jobs["job-2"])

----------------------------------------------------------------------------
(* Properties of the stage functions *)

\* the rows of a record set, one by one
RowsOf(data) == RowSet(data.rows)

UniqueKeys(data) ==
    \A i, j \in 1..Len(data.rows) : i # j => Key(data.rows[i]) # Key(data.rows[j])

NoNulls(data) ==
    \A r \in RowsOf(data) : \A c \in data.columns :
        ~CellIsNull(r, c) /\ (c = "timestamp" => r[c].k # "bad")

\* C11: whenever transform_data returns, no two rows of its output share the
\* same (participant_id, measurement_type) pair and no output row has a null
\* value in any field.
C11_UniqueKeysNoNulls ==
    /\ once.ok => UniqueKeys(once.data) /\ NoNulls(once.data)
    /\ twice.ok => UniqueKeys(twice.data) /\ NoNulls(twice.data)

\* transform_data has returned on an input whose two rows share their pair
C11_Witness ==
    /\ phase = "once" /\ once.ok
    /\ \E i, j \in 1..Len(input.rows) :
          i # j /\ Key(input.rows[i]) = Key(input.rows[j])
    /\ Len(once.data.rows) = 1

\* the rows of `data` that pass dropna, to_datetime and dropna on timestamp
Survivors(data) ==
    {r \in RowsOf(data) : /\ \A c \in data.columns : ~CellIsNull(r, c)
                          /\ r.timestamp.k \notin {"bad", "na"}}

Group(rowset, k) == {r \in rowset : Key(r) = k}

\* C12: whenever transform_data returns, every (participant_id,
\* measurement_type) group with a surviving row has exactly one retained row,
\* that row is one of the group's survivors and its quality_score is the
\* maximum of the group.
C12_KeepsHighestQuality ==
    once.ok =>
        \A k \in {Key(r) : r \in Survivors(input)} :
            LET kept == {i \in 1..Len(once.data.rows) : Key(once.data.rows[i]) = k}
            IN  /\ Cardinality(kept) = 1
                /\ \A i \in kept :
                      /\ once.data.rows[i] \in Group(Survivors(input), k)
                      /\ \A r \in Group(Survivors(input), k) :
                            r.quality_score.n <= once.data.rows[i].quality_score.n

\* the input lists the lower-quality row of a pair first and transform_data
\* returned the higher-quality one
C12_Witness ==
    /\ phase = "once" /\ once.ok
    /\ Len(input.rows) = 2
    /\ Key(input.rows[1]) = Key(input.rows[2])
    /\ input.rows[1].quality_score.n < input.rows[2].quality_score.n
    /\ once.data.rows = <<input.rows[2]>>

\* C13: transform_data is idempotent: called on a record set it returned, it
\* returns again, with the same set of rows (none dropped, none changed).
C13_Idempotent ==
    phase = "twice" =>
        /\ twice.ok
        /\ RowsOf(twice.data) = RowsOf(once.data)
        /\ Len(twice.data.rows) = Len(once.data.rows)

\* the second call has returned on an output from which the first call had
\* removed a row, leaving only whole numbers in the value column
C13_Witness ==
    /\ phase = "twice" /\ twice.ok
    /\ Len(input.rows) = 2 /\ Len(once.data.rows) = 1
    /\ \E r \in RowsOf(input) : ~IsWhole(r.value)
    /\ \A r \in RowsOf(once.data) : IsWhole(r.value)

\* a structurally valid record set: the declared columns with their declared
\* dtypes and no missing cell
StructurallyValid(data) ==
    /\ data.columns = Columns
    /\ \A c \in Columns : data.dtypes[c] = DeclaredDtype(c)
    /\ NoNulls(data)

\* the four validation rules, read at the instant t
RulesHold(data, t) ==
    /\ \A r \in RowsOf(data) : r.value.n >= 0
    /\ \A r \in RowsOf(data) : 0 <= r.quality_score.n /\ r.quality_score.n <= Scale
    /\ \A r \in RowsOf(data) : r.timestamp.n <= t
    /\ \A r1, r2 \in RowsOf(data) :
          r1.measurement_type = r2.measurement_type => r1.unit = r2.unit

\* C14: on a structurally valid record set (the empty one included)
\* validate_data does not raise, and returns true exactly when every value is
\* >= 0, every quality_score lies in [0,1], every timestamp is <= the instant
\* of the call and each measurement_type has one unit.
C14_ValidateDecidesRules ==
    \A i \in 1..Len(verdicts) :
        StructurallyValid(verdicts[i].on) =>
            /\ verdicts[i].out.ok
            /\ verdicts[i].out.flag <=> RulesHold(verdicts[i].on, verdicts[i].at)

\* validate_data returned false on a record set whose only fault is one
\* measurement_type in two units
C14_Witness ==
    /\ verdicts # <<>>
    /\ StructurallyValid(verdicts[1].on)
    /\ verdicts[1].out = ReturnBool(FALSE)
    /\ \E r1, r2 \in RowsOf(verdicts[1].on) :
                r1.measurement_type = r2.measurement_type /\ r1.unit # r2.unit
    /\ \A r \in RowsOf(verdicts[1].on) :
                /\ r.value.n >= 0 /\ r.quality_score.n <= Scale
                /\ r.timestamp.n <= verdicts[1].at

\* C15 as stated: two calls of validate_data on the same record set, at any
\* two instants, return the same boolean.
C15_SameVerdictAtAnyInstants ==
    \A i, j \in 1..Len(verdicts) :
        verdicts[i].on = verdicts[j].on => verdicts[i].out = verdicts[j].out

\* a timestamp of `data` lies after the instant s and not after the instant t
BecomesPast(data, s, t) == \E r \in RowsOf(data) : s < r.timestamp.n /\ r.timestamp.n <= t

\* C15 (amended): validate_data reads the clock, so two calls on the same
\* record set return the same boolean unless a timestamp of the record set
\* lies after the instant of the earlier call and not after the instant of
\* the later one (in particular two calls at the same instant agree); a call
\* leaves the record set it is given as it was.
C15_SameVerdictUnlessClockPassed ==
    /\ [](\A i, j \in 1..Len(verdicts) :
            (i <= j /\ verdicts[i].on = verdicts[j].on) =>
                \/ verdicts[i].out = verdicts[j].out
                \/ BecomesPast(verdicts[i].on, verdicts[i].at, verdicts[j].at))
    /\ [][verdicts' # verdicts =>
            /\ Subject' = Subject
            /\ verdicts'[Len(verdicts')].on = Subject]_vars

\* the same record set was refused while one of its timestamps was still
\* ahead of the clock, and accepted once the clock had reached it
C15_Witness ==
    /\ Len(verdicts) = 2
    /\ verdicts[1].on = verdicts[2].on
    /\ verdicts[1].out = ReturnBool(FALSE)
    /\ verdicts[2].out = ReturnBool(TRUE)
    /\ verdicts[1].at < verdicts[2].at

----------------------------------------------------------------------------
(* Properties of the job record *)

\* the tasks whose except clause has caught a stage's exception
Failing == {t \in tasks : t.e # NoError}

\* C16 as stated: when a stage raises, the job's message is that error's text.
C16_MessageIsErrorText ==
    \A t \in Failing : jobs[t.job_id].message = t.e.text

\* C16 (amended): when a stage raises, the job's message is
\* "ETL process failed: " followed by that error's text.
C16_MessageIsPrefixedErrorText ==
    \A t \in Failing : jobs[t.job_id].message = "ETL process failed: " \o t.e.text

\* extract_data raised on a file that is not there, and transform_data an
\* AssertionError without text, in two jobs
C16_Witness ==
    /\ \E t \in Failing : t.e.type = "FileNotFoundError" /\ t.e.text # ""
    /\ \E t \in Failing : t.e = Caught("AssertionError", "")

\* what a reader sees of one job: the status and the progress go together
Untorn(view) == (view.status = "running") <=> (view.progress < 100)

\* the answers of the two query handlers that carry a job
Observed == response.code = 200 /\ response.op \in {"status", "details"}

\* C17: in every state in which a query can run (every pipeline task
\* suspended or finished) and in every answer a query gave, a job's status is
\* running exactly when its progress is below 100.
C17_NoTornTerminalWrite ==
    /\ \A j \in DOMAIN jobs : Untorn(jobs[j])
    /\ Observed => Untorn(response.body)

\* a status query answered for a job the pipeline had just completed, while
\* another job was still running
C17_Witness ==
    /\ response.op = "status" /\ response.code = 200
    /\ response.body.status = "completed" /\ response.body.progress = 100
    /\ \E j \in DOMAIN jobs : jobs[j].status = "running" /\ jobs[j].progress = 75
    /\ \E j \in DOMAIN jobs : jobs[j].status = "completed"

\* the number of stages of job j that have finished successfully
Succeeded(j) ==
    Cardinality({i \in 1..Len(trace[j]) : trace[j][i].ev \in {"return", "true"}})

\* the stage job j is in: the last one called
CurrentStage(j) ==
    LET calls == {i \in 1..Len(trace[j]) : trace[j][i].ev = "call"}
    IN  IF calls = {} THEN "none"
        ELSE trace[j][CHOOSE i \in calls : \A k \in calls : k <= i].stage

ProgressDuring(stage) ==
    CASE stage = "extract" -> 0
      [] stage = "transform" -> 25
      [] stage = "validate" -> 50
      [] stage = "load" -> 75
      [] OTHER -> 0

\* C18: every job's status is running, completed or failed and its progress
\* is 0, 25, 50, 75 or 100; while the status is running the progress is 25
\* times the number of the job's stages that finished successfully: 0 during
\* extract, 25 during transform, 50 during validate, 75 during load.
C18_ProgressCountsStages ==
    \A j \in DOMAIN jobs :
        /\ jobs[j].status \in {"running", "completed", "failed"}
        /\ jobs[j].progress \in {0, 25, 50, 75, 100}
        /\ jobs[j].status = "running" =>
              /\ jobs[j].progress = 25 * Succeeded(j)
              /\ jobs[j].progress = ProgressDuring(CurrentStage(j))

\* one job is in load_data after three successful stages while the other is
\* still in extract_data
C18_Witness ==
    /\ \E j \in DOMAIN jobs :
          jobs[j].status = "running" /\ CurrentStage(j) = "load" /\ Succeeded(j) = 3
    /\ \E j \in DOMAIN jobs :
          jobs[j].status = "running" /\ CurrentStage(j) = "extract" /\ Succeeded(j) = 0

GateMessage == "Data validation failed"

\* texts a stage error may carry, the gate's own message among them
ErrorTexts ==
    {"", GateMessage, "'unit'", "No columns to parse from file",
     "[Errno 2] No such file or directory: '" \o DATA_DIR \o GateMessage \o "'"}

\* C19: a failed job's message is "Data validation failed" exactly when
\* validate_data returned false for it, and the message written for a stage
\* error is never that text, whatever the error's own text.
C19_GateFailureDistinguishable ==
    /\ \A j \in DOMAIN jobs :
          jobs[j].status = "failed" =>
              (jobs[j].message = GateMessage <=> Has(j, "validate", "false"))
    /\ \A t \in Failing :
          jobs[t.job_id].message # GateMessage /\ ~Has(t.job_id, "validate", "false")
    /\ \A text \in ErrorTexts : FailedMessage(text) # GateMessage

\* one job failed at the quality gate and another on a stage error
C19_Witness ==
    /\ \E j \in DOMAIN jobs :
          /\ jobs[j].status = "failed" /\ jobs[j].message = GateMessage
          /\ Has(j, "validate", "false")
    /\ \E t \in Failing :
          /\ jobs[t.job_id].status = "failed"
          /\ Has(t.job_id, "transform", "raise")

\* a record set with all eight declared columns, at least one row, no missing
\* cell, numbers in value and quality_score and timestamps with UTC offset
AllNumeric(data) ==
    /\ data.columns = Columns
    /\ data.rows # <<>>
    /\ \A r \in RowsOf(data) :
          /\ \A c \in Columns : ~CellIsNull(r, c)
          /\ r.value.k = "num" /\ r.quality_score.k = "num"
          /\ r.timestamp.k = "utc"

\* C20: on a record set that has all eight declared columns and only numbers
\* (whole or decimal) in value and quality_score, transform_data returns,
\* with value and quality_score held as Float64.
C20_NumericColumnsCoerce ==
    (phase # "raw" /\ phase # "typed" /\ AllNumeric(input)) =>
        /\ once.ok
        /\ once.data.dtypes["value"] = "Float64"
        /\ once.data.dtypes["quality_score"] = "Float64"

====
